---------------------------- MODULE Spec2Model ----------------------------
(***************************************************************************)
(* Verification model of genie-flow-invoker-weaviate.                      *)
(*                                                                         *)
(* The persistence engine (WeaviatePersistor.persist_document) is modelled *)
(* as a process that runs against a backend holding collections, tenants   *)
(* and, per collection/tenant scope, the list of stored objects.  Every    *)
(* backend call of persist_document is one atomic step; the steps of       *)
(* several callers may interleave.                                         *)
(*                                                                         *)
(* The query side (compile_filter, AbstractSearcher.create_query_params,   *)
(* apply_parent_strategy, compile_chunked_documents) is modelled as calls  *)
(* whose input and output are kept in search_call until the caller takes   *)
(* the result.                                                             *)
(***************************************************************************)
EXTENDS Integers, Sequences, FiniteSets, TLC

(***************************************************************************)
(* Bounds of the model.                                                    *)
(***************************************************************************)
MaxChunks == 3      \* longest document.chunks
MaxId == 3          \* chunk ids are 1..MaxId
MaxLevel == 1       \* hierarchy levels are 0..MaxLevel
MaxObjects == 3     \* cap on the objects of one scope (racing inserts)
MaxEntries == 2     \* most entries of a having_all / having_any mapping
MaxGap == 2         \* most spaces between attribute name and operator token
MaxResults == 3     \* most objects in the result of a backend query
MaxConnections == 5 \* most connections the client factory opens

None == "<None>"    \* Python's None

ChunkIds == 1..MaxId
NoId == 0           \* a parent_id of None
Levels == 0..MaxLevel

AllProcs == {1, 2}

(***************************************************************************)
(* Names.  A collection name or tenant name handed to persist_document or  *)
(* configured as a default is None, the empty string or a name.            *)
(***************************************************************************)
CollectionNames == {"A", "B"}
TenantNames == {"t1", "t2"}
NameArgs == {None, ""} \cup CollectionNames
TenantArgs == {None} \cup TenantNames
Scopes == ({""} \cup CollectionNames) \X TenantArgs

(***************************************************************************)
(* document_metadata: a mapping, modelled as a sequence of entries.  A key *)
(* is a sequence of characters; a value is a leaf or a nested mapping.     *)
(***************************************************************************)
Letters == {"a", "e", "g", "l", "m", "n", "s", "t", "u"}
Digits == {"1"}

Leaf(key) == [key |-> key, nested |-> FALSE, sub |-> <<>>]
Nested(key, entries) == [key |-> key, nested |-> TRUE, sub |-> entries]

\* {"lang": "en"}, as in the fixtures of the tests
PlainMetadata == << Leaf(<<"l", "a", "n", "g">>) >>
\* {"1st-name!": ...}
DirtyMetadata == << Leaf(<<"1", "s", "t", "-", "n", "a", "m", "e", "!">>) >>
\* {"": ...}
EmptyKeyMetadata == << Leaf(<<>>) >>
\* {"lang": {"a-1": ...}}
NestedMetadata == << Nested(<<"l", "a", "n", "g">>, << Leaf(<<"a", "-", "1">>) >>) >>

(***************************************************************************)
(* DocumentChunk and ChunkedDocument (genie_flow_invoker.doc_proc).  A     *)
(* chunk id is stable: it names one chunk, with its level and its parent,  *)
(* in every document.  The chunks form chains: chunk 1 is a root (level 0, *)
(* no parent), chunk 2 its child at level 1, and so on down to level       *)
(* MaxLevel, after which the next id starts a new root.                    *)
(***************************************************************************)
LevelOf(id) == (id - 1) % (MaxLevel + 1)

DocumentChunk(id) ==
    [chunk_id |-> id,
     hierarchy_level |-> LevelOf(id),
     parent_id |-> IF LevelOf(id) = 0 THEN NoId ELSE id - 1]

Chunks == { DocumentChunk(id) : id \in ChunkIds }

ChunkSeqs == UNION { [1..n -> Chunks] : n \in 0..MaxChunks }

\* the data-model invariant: a parent that is part of the document has a
\* level strictly less than its child's
WellFormed(chunks) ==
    \A i, j \in DOMAIN chunks :
        chunks[i].parent_id = chunks[j].chunk_id
            => chunks[j].hierarchy_level < chunks[i].hierarchy_level

DocumentsWith(filenames, metadatas) ==
    { d \in [filename : filenames, document_metadata : metadatas,
             chunks : ChunkSeqs] : WellFormed(d.chunks) }

NoDoc == [filename |-> None, document_metadata |-> <<>>, chunks |-> <<>>]

VARIABLES
    collections,            \* backend: names of the existing collections
    tenants,                \* backend: collection name -> its tenants
    store,                  \* backend: scope -> list of stored objects
    base_persist_params,    \* WeaviatePersistor.base_persist_params
    pc,                     \* per caller: position in persist_document
    frame,                  \* per caller: locals of persist_document
    writes,                 \* per caller: backend data calls of this run
    pre,                    \* per caller: backend state when the run began
    last,                   \* the latest run, if it began on an empty scope
    last_write,             \* scope -> chunk id -> object of the latest write
    base_query_params,      \* AbstractSearcher.base_query_params
    search_call,            \* the latest call on the query side: op, input, output
    query_config,           \* the query_params the searcher was constructed with
    searcher_class,         \* the class of the searcher instance
    client,                 \* WeaviateClientFactory._client: a connection or None
    connections,            \* connection -> unopened, live, not live or closed
    using,                  \* per caller: the client its `with` block was handed
    admin_call              \* the latest call of create_collection / create_tenant

vars == <<collections, tenants, store, base_persist_params, pc, frame,
          writes, pre, last, last_write, base_query_params, search_call,
          query_config, searcher_class, client, connections, using,
          admin_call>>

backend == <<collections, tenants, store>>

searcher_config == <<query_config, searcher_class>>

search_vars == <<base_query_params, search_call, searcher_config>>

client_vars == <<client, connections, using, admin_call>>

(***************************************************************************)
(* Python's `a or b`.                                                      *)
(***************************************************************************)
Truthy(x) == x # None /\ x # ""

PyOr(a, b) == IF Truthy(a) THEN a ELSE b

(***************************************************************************)
(* WeaviatePersistor.compile_collection_tenant_names                       *)
(***************************************************************************)
compile_collection_tenant_names(base, collection_name, tenant_name) ==
    LET result == << PyOr(collection_name, base.collection_name),
                     PyOr(tenant_name, base.tenant_name) >>
    IN  IF result[1] = None
        THEN [raised |-> "MissingCollectionName", names |-> result]
        ELSE [raised |-> None, names |-> result]

(***************************************************************************)
(* chunk_index: chunks grouped by hierarchy_level in a defaultdict, which  *)
(* iterates its keys in the order of their first insertion.                *)
(***************************************************************************)
RECURSIVE level_keys(_, _)
level_keys(chunks, seen) ==
    IF chunks = <<>> THEN <<>>
    ELSE IF Head(chunks).hierarchy_level \in seen
         THEN level_keys(Tail(chunks), seen)
         ELSE <<Head(chunks).hierarchy_level>> \o
              level_keys(Tail(chunks), seen \cup {Head(chunks).hierarchy_level})

AtLevel(chunks, level) ==
    SelectSeq(chunks, LAMBDA c : c.hierarchy_level = level)

RECURSIVE flatten_groups(_, _)
flatten_groups(chunks, keys) ==
    IF keys = <<>> THEN <<>>
    ELSE AtLevel(chunks, Head(keys)) \o flatten_groups(chunks, Tail(keys))

\* mutant: only the group of the first level is visited
chunk_index_first_group(chunks) ==
    IF chunks = <<>> THEN <<>>
    ELSE AtLevel(chunks, Head(chunks).hierarchy_level)

\* the chunks in the order in which the two nested loops visit them
chunk_index(chunks) == flatten_groups(chunks, level_keys(chunks, {}))

(***************************************************************************)
(* The object persist_document hands to the backend for one chunk.  Its    *)
(* references are {"parent": chunk.parent_id}, or None without a parent.   *)
(***************************************************************************)
\* line 303 (and the reference property of the collection, lines 94-99)
parent_relation == "parent"

build_object(document, chunk) ==
    [uuid |-> chunk.chunk_id,
     properties |-> [filename |-> document.filename,
                     hierarchy_level |-> chunk.hierarchy_level,
                     document_metadata |-> document.document_metadata],
     references |-> chunk.parent_id]

(***************************************************************************)
(* Backend data calls on the object list of one scope.                     *)
(***************************************************************************)
\* mutant: the existence check never finds the object
data_exists_never(objects, uuid) == FALSE

data_exists(objects, uuid) ==
    \E i \in DOMAIN objects : objects[i].uuid = uuid

\* mutant: an insert drops the objects that were there
data_insert_clobbers(objects, object) == <<object>>

data_insert(objects, object) == Append(objects, object)

\* mutant: a replace leaves the old object in place
data_replace_keeps_old(objects, object) == data_insert(objects, object)

data_replace(objects, object) ==
    data_insert(SelectSeq(objects, LAMBDA o : o.uuid # object.uuid), object)

\* mutant: a handle is returned for any name, existing or not
collections_get_any(existing, collection_name) == TRUE

collections_get(existing, collection_name) == collection_name \in existing

\* mutant: every tenant is reported to exist
tenants_exists_always(known, tenant_name) == TRUE

tenants_exists(known, tenant_name) == tenant_name \in known

(***************************************************************************)
(* Initial state: collection "A" exists with tenant "t1" and no objects;   *)
(* the persistor is configured with some defaults; nobody is calling.      *)
(***************************************************************************)
IdleFrame ==
    [document |-> NoDoc, arg_collection |-> None, arg_tenant |-> None,
     collection_name |-> None, tenant_name |-> None,
     todo |-> <<>>, found |-> FALSE, present |-> FALSE,
     nr_inserted |-> 0, nr_replaced |-> 0, raised |-> None]

NoObject ==
    [uuid |-> NoId,
     properties |-> [filename |-> None, hierarchy_level |-> 0,
                     document_metadata |-> <<>>],
     references |-> NoId]

NoSnapshot ==
    << {}, [c \in {""} \cup CollectionNames |-> {}], [s \in Scopes |-> <<>>] >>

NoLast ==
    [fresh |-> FALSE, document |-> NoDoc, scope |-> <<"", None>>,
     nr_inserted |-> 0, nr_replaced |-> 0, objects |-> <<>>]

(***************************************************************************)
(* The query side at rest: a searcher configured with nothing, no call.    *)
(* An optional integer is a sequence of at most one integer; a mapping     *)
(* parameter is absent from the dict, None, or a list of entries.          *)
(***************************************************************************)
NoMapping == [state |-> "none", items |-> <<>>]

NoQueryParams ==
    [collection_name |-> None, tenant_name |-> None,
     parent_strategy |-> None, operation_level |-> <<>>,
     having_all |-> NoMapping, having_any |-> NoMapping,
     vector_name |-> None]

IdleCall == [op |-> "idle", input |-> <<>>, output |-> <<>>]

(***************************************************************************)
(* The client factory at rest: no connection was created yet, nobody is    *)
(* inside a `with` block.  A connection is a number; 0 stands for None.    *)
(***************************************************************************)
Connections == 1..MaxConnections

NoClient == 0

SearcherClasses ==
    {"SimilaritySearcher", "VectorSimilaritySearcher", "HybridSearcher"}

IdleAdmin ==
    [op |-> "idle", input |-> <<>>, output |-> <<>>, before |-> <<>>]

InitAll(bases, query_bases, classes) ==
    /\ collections = {"A"}
    /\ tenants = [c \in {""} \cup CollectionNames |->
                     IF c = "A" THEN {"t1"} ELSE {}]
    /\ store = [s \in Scopes |-> <<>>]
    /\ base_persist_params \in bases
    /\ pc = [p \in AllProcs |-> "idle"]
    /\ frame = [p \in AllProcs |-> IdleFrame]
    /\ writes = [p \in AllProcs |-> <<>>]
    /\ pre = [p \in AllProcs |-> NoSnapshot]
    /\ last = NoLast
    /\ last_write = [s \in Scopes |-> [i \in ChunkIds |-> NoObject]]
    /\ base_query_params \in query_bases
    /\ search_call = IdleCall
    /\ query_config = base_query_params
    /\ searcher_class \in classes
    /\ client = NoClient
    /\ connections = [c \in Connections |-> "unopened"]
    /\ using = [p \in AllProcs |-> NoClient]
    /\ admin_call = IdleAdmin

InitBoth(bases, query_bases) ==
    InitAll(bases, query_bases, {"VectorSimilaritySearcher"})

InitWith(bases) == InitBoth(bases, {NoQueryParams})

(***************************************************************************)
(* WeaviateClientFactory (invoker/weaviate.py).  __enter__ hands out the   *)
(* held connection when there is one and it is live; otherwise it closes   *)
(* the held one, if any, and connects anew.  __exit__ does nothing.  A     *)
(* connection that was connected is live until its liveness changes.       *)
(***************************************************************************)
\* self._client.is_live()
is_live(conns, c) == conns[c] = "live"

\* self._client.close()
close(conns, c) == [conns EXCEPT ![c] = "closed"]

\* the connection weaviate.connect_to_custom returns: a new one
NewConnection(conns) ==
    CHOOSE c \in Connections :
        /\ conns[c] = "unopened"
        /\ \A d \in Connections : d < c => conns[d] # "unopened"

connect_to_custom(conns) == [conns EXCEPT ![NewConnection(conns)] = "live"]

\* mutant: a connection found not live is dropped without being closed
factory_enter_no_close(cl, conns) ==
    IF cl = NoClient \/ ~is_live(conns, cl)
    THEN [client |-> NewConnection(conns),
          connections |-> connect_to_custom(conns)]
    ELSE [client |-> cl, connections |-> conns]

\* lines 76-89: __enter__, as the factory's state after it and its result
factory_enter(cl, conns) ==
    IF cl = NoClient \/ ~is_live(conns, cl)
    THEN LET closed == IF cl # NoClient THEN close(conns, cl) ELSE conns
         IN  [client |-> NewConnection(closed),
              connections |-> connect_to_custom(closed)]
    ELSE [client |-> cl, connections |-> conns]

\* the model opens at most MaxConnections connections
CanEnter ==
    (client = NoClient \/ ~is_live(connections, client))
        => \E c \in Connections : connections[c] = "unopened"

\* the factory after the `with` blocks of a call that reached them
acquire(reached) ==
    IF reached
    THEN LET entered == factory_enter(client, connections)
         IN  /\ client' = entered.client
             /\ connections' = entered.connections
    ELSE UNCHANGED <<client, connections>>

(***************************************************************************)
(* persist_document, lines 243-249: the call, the resolution of the names  *)
(* and the grouping of the chunks.  None of it touches the backend.        *)
(***************************************************************************)
persist_document_call(p, requests) ==
    /\ pc[p] = "idle"
    /\ \E request \in requests :
         LET d == request[1]
             cn == request[2]
             tn == request[3]
             r == compile_collection_tenant_names(base_persist_params, cn, tn)
         IN  /\ frame' = [frame EXCEPT ![p] =
                    [IdleFrame EXCEPT
                        !.document = d,
                        !.arg_collection = cn,
                        !.arg_tenant = tn,
                        !.collection_name =
                            IF r.raised = None THEN r.names[1] ELSE None,
                        !.tenant_name =
                            IF r.raised = None THEN r.names[2] ELSE None,
                        !.todo =
                            IF r.raised = None THEN chunk_index(d.chunks)
                            ELSE <<>>,
                        !.raised = r.raised]]
             /\ pc' = [pc EXCEPT ![p] =
                    IF r.raised = None THEN "get_collection" ELSE "done"]
    /\ writes' = [writes EXCEPT ![p] = <<>>]
    /\ pre' = [pre EXCEPT ![p] = backend]
    /\ UNCHANGED <<search_vars, client_vars, collections, tenants, store, base_persist_params, last,
                   last_write>>

NextChunk(todo) == IF todo = <<>> THEN "done" ELSE "exists"

Raise(p, error) ==
    /\ frame' = [frame EXCEPT ![p].raised = error]
    /\ pc' = [pc EXCEPT ![p] = "done"]

(***************************************************************************)
(* lines 251-256: client.collections.get(collection_name), in a `with`     *)
(* block of the client factory that ends right after it                    *)
(***************************************************************************)
get_collection(p) ==
    /\ pc[p] = "get_collection"
    /\ IF collections_get(collections, frame[p].collection_name)
       THEN /\ pc' = [pc EXCEPT ![p] =
                  IF frame[p].tenant_name # None THEN "check_tenant"
                  ELSE NextChunk(frame[p].todo)]
            /\ UNCHANGED frame
       ELSE Raise(p, "CollectionNotFound")
    /\ CanEnter
    /\ acquire(TRUE)
    /\ UNCHANGED <<search_vars, using, admin_call, collections, tenants,
                   store, base_persist_params, writes, pre, last, last_write>>

(***************************************************************************)
(* lines 258-275: the tenant must exist; it is never created here          *)
(***************************************************************************)
check_tenant(p) ==
    /\ pc[p] = "check_tenant"
    /\ IF tenants_exists(tenants[frame[p].collection_name],
                         frame[p].tenant_name)
       THEN /\ pc' = [pc EXCEPT ![p] = NextChunk(frame[p].todo)]
            /\ UNCHANGED frame
       ELSE Raise(p, "TenantNotFound")
    /\ UNCHANGED <<search_vars, client_vars, collections, tenants, store, base_persist_params,
                   writes, pre, last, last_write>>

ScopeOf(f) == <<f.collection_name, f.tenant_name>>

UuidsOf(objects) == { objects[i].uuid : i \in DOMAIN objects }

(***************************************************************************)
(* line 305: collection.data.exists(chunk.chunk_id)                        *)
(***************************************************************************)
check_exists(p) ==
    /\ pc[p] = "exists"
    /\ frame' = [frame EXCEPT
           ![p].found = data_exists(store[ScopeOf(frame[p])],
                                    Head(frame[p].todo).chunk_id),
           ![p].present = Head(frame[p].todo).chunk_id
                              \in UuidsOf(store[ScopeOf(frame[p])])]
    /\ pc' = [pc EXCEPT ![p] = "write"]
    /\ UNCHANGED <<search_vars, client_vars, collections, tenants, store, base_persist_params,
                   writes, pre, last, last_write>>

(***************************************************************************)
(* lines 306-326: insert or replace, as decided by the existence check     *)
(***************************************************************************)
WriteEvent(op, chunk, present) ==
    [op |-> op, chunk |-> chunk, present |-> present]

\* mutant: the else branch is lost, every chunk is inserted
write_op_always_insert(found) == "insert"

\* line 305: `if not collection.data.exists(...)` inserts, line 316 replaces
write_op(found) == IF ~found THEN "insert" ELSE "replace"

write_chunk(p) ==
    /\ pc[p] = "write"
    /\ LET f == frame[p]
           chunk == Head(f.todo)
           object == build_object(f.document, chunk)
           scope == ScopeOf(f)
           op == write_op(f.found)
       IN  /\ op = "insert" => Len(store[scope]) < MaxObjects
           /\ store' = [store EXCEPT ![scope] =
                  IF op = "insert" THEN data_insert(store[scope], object)
                  ELSE data_replace(store[scope], object)]
           /\ frame' = [frame EXCEPT
                  ![p].nr_inserted =
                      IF op = "insert" THEN f.nr_inserted + 1
                      ELSE f.nr_inserted,
                  ![p].nr_replaced =
                      IF op = "insert" THEN f.nr_replaced
                      ELSE f.nr_replaced + 1,
                  ![p].todo = Tail(f.todo)]
           /\ writes' = [writes EXCEPT ![p] =
                  Append(writes[p], WriteEvent(op, chunk, f.present))]
           /\ last_write' = [last_write EXCEPT
                  ![scope][chunk.chunk_id] = object]
    /\ pc' = [pc EXCEPT ![p] = NextChunk(Tail(frame[p].todo))]
    /\ UNCHANGED <<search_vars, client_vars, collections, tenants, base_persist_params, pre, last>>

(***************************************************************************)
(* line 328: the caller takes the result (or the exception)                *)
(***************************************************************************)
\* what is remembered of a run that returned and had found its scope empty
Summary(p) ==
    IF frame[p].raised = None /\ pre[p][3][ScopeOf(frame[p])] = <<>>
    THEN [fresh |-> TRUE,
          document |-> frame[p].document,
          scope |-> ScopeOf(frame[p]),
          nr_inserted |-> frame[p].nr_inserted,
          nr_replaced |-> frame[p].nr_replaced,
          objects |-> store[ScopeOf(frame[p])]]
    ELSE NoLast

persist_document_return(p) ==
    /\ pc[p] = "done"
    /\ pc' = [pc EXCEPT ![p] = "idle"]
    /\ last' = Summary(p)
    /\ frame' = [frame EXCEPT ![p] = IdleFrame]
    /\ writes' = [writes EXCEPT ![p] = <<>>]
    /\ pre' = [pre EXCEPT ![p] = NoSnapshot]
    /\ UNCHANGED <<search_vars, client_vars, collections, tenants, store, base_persist_params,
                   last_write>>

persist_document(p, requests) ==
    \/ persist_document_call(p, requests)
    \/ get_collection(p)
    \/ check_tenant(p)
    \/ check_exists(p)
    \/ write_chunk(p)
    \/ persist_document_return(p)

(***************************************************************************)
(* Spec: one caller, whose runs of persist_document follow each other,     *)
(* persisting documents of every shape into collection "A"; a small        *)
(* document is also sent to the tenant "t2", which does not exist.         *)
(***************************************************************************)
Documents == DocumentsWith({"f1"}, {PlainMetadata})

SmallDocument ==
    [filename |-> "f2", document_metadata |-> PlainMetadata,
     chunks |-> << DocumentChunk(1) >>]

Requests ==
    (Documents \X {"A"} \X {None})
        \cup ({SmallDocument} \X {"A"} \X {"t2"})

Init == InitWith({[collection_name |-> "A", tenant_name |-> None]})

Next == persist_document(1, Requests)

Spec == Init /\ [][Next]_vars

(***************************************************************************)
(* SpecNames: one caller persisting the small document under every         *)
(* combination of call-time and configured collection and tenant names.    *)
(***************************************************************************)
BaseParams == [collection_name : NameArgs, tenant_name : TenantArgs]

NameRequests == {SmallDocument} \X NameArgs \X TenantArgs

InitNames == InitWith(BaseParams)

NextNames == persist_document(1, NameRequests)

SpecNames == InitNames /\ [][NextNames]_vars

(***************************************************************************)
(* SpecConc: two callers whose runs interleave at every backend call; both *)
(* persist one-chunk documents into collection "A".                        *)
(***************************************************************************)
ConcRequests ==
    { d \in DocumentsWith({"f1", "f2"}, {PlainMetadata}) :
          Len(d.chunks) = 1 /\ d.chunks[1].chunk_id = 1 }
        \X {"A"} \X {None, "t2"}

NextConc == \E p \in AllProcs : persist_document(p, ConcRequests)

SpecConc == Init /\ [][NextConc]_vars

(***************************************************************************)
(* SpecMeta: one caller persisting one-chunk documents whose               *)
(* document_metadata has clean, dirty, empty and nested keys.              *)
(***************************************************************************)
MetaRequests ==
    { d \in DocumentsWith({"f1"}, {PlainMetadata, DirtyMetadata,
                                   EmptyKeyMetadata, NestedMetadata}) :
          Len(d.chunks) = 1 /\ d.chunks[1].chunk_id = 1 }
        \X {"A"} \X {None, "t2"}

NextMeta == persist_document(1, MetaRequests)

SpecMeta == Init /\ [][NextMeta]_vars

(***************************************************************************)
(* The query side.  Its operations leave the persistence side alone.       *)
(***************************************************************************)
persist_vars == <<base_persist_params, pc, frame, writes, pre, last,
                  last_write>>

(***************************************************************************)
(* Filters, as the source builds them with weaviate's Filter: a leaf       *)
(* comparison (operator, target, value) or a group of filters.  NoFilter   *)
(* is the None that compile_filter returns for "no filtering".             *)
(***************************************************************************)
NoFilter ==
    [kind |-> "none", operator |-> "", target |-> <<>>, value |-> 0,
     filters |-> <<>>]

FilterValue(operator, target, value) ==
    [kind |-> "value", operator |-> operator, target |-> target,
     value |-> value, filters |-> <<>>]

FilterGroup(kind, filters) ==
    [kind |-> kind, operator |-> "", target |-> <<>>, value |-> 0,
     filters |-> filters]

\* mutant: `a & b` keeps the right operand only
filter_and_right_only(a, b) == b

\* `a & b`: a conjunction of exactly the two operands
filter_and(a, b) == FilterGroup("and", <<a, b>>)

\* Filter.all_of / Filter.any_of: a single filter stands for itself, an
\* empty list is refused
filter_group_of(kind, filters) ==
    CASE Len(filters) = 0 ->
             [raised |-> "WeaviateInvalidInputError", filter |-> NoFilter]
      [] Len(filters) = 1 ->
             [raised |-> None, filter |-> filters[1]]
      [] OTHER ->
             [raised |-> None, filter |-> FilterGroup(kind, filters)]

(***************************************************************************)
(* _create_attribute_filter, of utils.py and of search.py.  A key is a     *)
(* sequence of characters.  The two modules differ in the indicator they   *)
(* take for a key without space, which is also the one their `match`       *)
(* accepts for equality: "==" in utils.py, "=" in search.py.               *)
(***************************************************************************)
FilterModules == {"utils", "search"}

equal_indicator(module) ==
    IF module = "utils" THEN <<"=", "=">> ELSE <<"=">>

\* key.rsplit(" ", 1) of a key that holds a space
rsplit(key) ==
    LET i == CHOOSE k \in DOMAIN key :
                 /\ key[k] = " "
                 /\ \A j \in (k + 1)..Len(key) : key[j] # " "
    IN  << SubSeq(key, 1, i - 1), SubSeq(key, i + 1, Len(key)) >>

match_indicator(module, indicator) ==
    CASE indicator = equal_indicator(module) -> "equal"
      [] indicator = <<"!", "=">> -> "not_equal"
      [] indicator = <<"<">> -> "less_than"
      [] indicator = <<"<", "=">> -> "less_or_equal"
      [] indicator = <<">">> -> "greater_than"
      [] indicator = <<">", "=">> -> "greater_or_equal"
      [] indicator = <<"@">> -> "contains_any"
      [] OTHER -> "unsupported"

create_attribute_filter(module, key, value) ==
    LET parts == IF \E k \in DOMAIN key : key[k] = " "
                 THEN rsplit(key)
                 ELSE << key, equal_indicator(module) >>
        operator == match_indicator(module, parts[2])
    IN  IF operator = "unsupported"
        THEN [raised |-> "InvalidFilter", filter |-> NoFilter]
        ELSE [raised |-> None,
              filter |-> FilterValue(operator, parts[1], value)]

\* [_create_attribute_filter(key, value) for key, value in mapping.items()]
attribute_filters(module, items) ==
    LET made == [i \in DOMAIN items |->
                    create_attribute_filter(module, items[i].key,
                                            items[i].value)]
    IN  IF \E i \in DOMAIN made : made[i].raised # None
        THEN [raised |-> "InvalidFilter", filters |-> <<>>]
        ELSE [raised |-> None,
              filters |-> [i \in DOMAIN made |-> made[i].filter]]

\* one of the two halves of compile_filter: query_params[name] is looked up
\* (KeyError when the dict has no such key), None gives no filter, a
\* mapping gives the group of its leaves
compile_group(module, kind, mapping) ==
    CASE mapping.state = "absent" ->
             [raised |-> "KeyError", filter |-> NoFilter]
      [] mapping.state = "none" ->
             [raised |-> None, filter |-> NoFilter]
      [] OTHER ->
             LET leaves == attribute_filters(module, mapping.items)
             IN  IF leaves.raised # None
                 THEN [raised |-> leaves.raised, filter |-> NoFilter]
                 ELSE filter_group_of(kind, leaves.filters)

\* mutant: the having_all filter is dropped when having_any is given
combine_any_only(query_filter, any_filter) == any_filter

\* `query_filter & any_filter` if there is a having_all filter, else the
\* having_any filter alone
combine(query_filter, any_filter) ==
    IF query_filter # NoFilter
    THEN filter_and(query_filter, any_filter)
    ELSE any_filter

compile_filter(module, query_params) ==
    LET all_part == compile_group(module, "and", query_params.having_all)
        any_part == compile_group(module, "or", query_params.having_any)
    IN  CASE all_part.raised # None -> all_part
          [] query_params.having_all.state = "absent" -> all_part
          [] any_part.raised # None -> any_part
          [] query_params.having_any.state = "none" -> all_part
          [] OTHER ->
                 [raised |-> None,
                  filter |-> combine(all_part.filter, any_part.filter)]

(***************************************************************************)
(* Filter keys and mappings.  A key is an attribute name alone, or a name, *)
(* one or more spaces and an operator token; "~" is no operator, and the   *)
(* empty token is a key that ends in a space.  A mapping is a dict: its    *)
(* keys differ, and it keeps the order of insertion.                       *)
(***************************************************************************)
AttributeNames == { <<"a">>, <<"a", " ", "b">> }

OperatorTokens ==
    { <<"=">>, <<"=", "=">>, <<"!", "=">>, <<"<">>, <<"<", "=">>, <<">">>,
      <<">", "=">>, <<"@">>, <<"~">>, <<>> }

Spaces(n) == [i \in 1..n |-> " "]

FilterKeys ==
    AttributeNames \cup
    { name \o Spaces(n) \o token :
        name \in AttributeNames, n \in 1..MaxGap, token \in OperatorTokens }

PlainKeys == { <<"a">>, <<"b", " ", "!", "=">>, <<"c", " ", "<">> }

FilterEntry(key) == [key |-> key, value |-> Len(key)]

Mapping(items) == [state |-> "map", items |-> items]

MappingsOver(keys, lengths) ==
    { Mapping([i \in DOMAIN ks |-> FilterEntry(ks[i])]) :
        ks \in { s \in UNION { [1..n -> keys] : n \in lengths } :
                   \A i, j \in DOMAIN s : i # j => s[i] # s[j] } }

AbsentMapping == [state |-> "absent", items |-> <<>>]

NoMappings == { AbsentMapping, NoMapping, Mapping(<<>>) }

FilterParams ==
    [having_all : NoMappings \cup MappingsOver(FilterKeys, {1})
                             \cup MappingsOver(PlainKeys, 2..MaxEntries),
     having_any : NoMappings \cup MappingsOver(PlainKeys, 1..MaxEntries)]

(***************************************************************************)
(* SpecFilter: compile_filter of either module is called on every pair of  *)
(* having_all and having_any parameters, one call after the other.         *)
(***************************************************************************)
compile_filter_call(modules, params) ==
    /\ search_call = IdleCall
    /\ \E module \in modules, query_params \in params :
           search_call' =
               [op |-> "compile_filter",
                input |-> [module |-> module, query_params |-> query_params],
                output |-> compile_filter(module, query_params)]
    /\ UNCHANGED <<backend, persist_vars, client_vars, searcher_config,
                   base_query_params>>

\* the caller takes the result (or the exception) of a query-side call
search_return ==
    /\ search_call # IdleCall
    /\ search_call' = IdleCall
    /\ UNCHANGED <<backend, persist_vars, client_vars, searcher_config,
                   base_query_params>>

NextFilter ==
    \/ compile_filter_call(FilterModules, FilterParams)
    \/ search_return

SpecFilter == Init /\ [][NextFilter]_vars

(***************************************************************************)
(* Vocabulary of the properties.                                           *)
(***************************************************************************)
Running(p) == pc[p] # "idle"

Returned(p) == pc[p] = "done" /\ frame[p].raised = None

DistinctIds(chunks) ==
    \A i, j \in DOMAIN chunks :
        chunks[i].chunk_id = chunks[j].chunk_id => i = j

IdsOf(chunks) == { chunks[i].chunk_id : i \in DOMAIN chunks }

Occurrences(seq, x) == Cardinality({ i \in DOMAIN seq : seq[i] = x })

\* the same elements, each as often
SameBag(s, t) ==
    /\ Len(s) = Len(t)
    /\ \A i \in DOMAIN s : Occurrences(s, s[i]) = Occurrences(t, s[i])

WritesOf(p, op) == { i \in DOMAIN writes[p] : writes[p][i].op = op }

\* C1: persisting a document of n chunks with distinct ids into an empty
\* collection and then persisting it again returns (n, 0) and then (0, n),
\* and the collection holds the same n records after the second run as
\* after the first.
C1_PersistTwice ==
    \A p \in AllProcs :
        ( /\ Returned(p)
          /\ last.fresh
          /\ last.document = frame[p].document
          /\ last.scope = ScopeOf(frame[p])
          /\ DistinctIds(frame[p].document.chunks) )
        => LET n == Len(frame[p].document.chunks)
           IN  /\ last.nr_inserted = n /\ last.nr_replaced = 0
               /\ frame[p].nr_inserted = 0 /\ frame[p].nr_replaced = n
               /\ Len(last.objects) = n
               /\ SameBag(store[ScopeOf(frame[p])], last.objects)

C1_Witness ==
    /\ Returned(1)
    /\ last.fresh
    /\ last.document = frame[1].document
    /\ last.scope = ScopeOf(frame[1])
    /\ DistinctIds(frame[1].document.chunks)
    /\ Len(frame[1].document.chunks) = 2
    /\ frame[1].nr_replaced = 2

\* C2: every chunk of the document causes exactly one backend write, an
\* insert exactly when its id was absent from the scope at its existence
\* check and a replace otherwise, the two counters count these writes, and
\* on return insertedCount + replacedCount is the number of chunks.
C2_OneWritePerChunk ==
    \A p \in AllProcs :
        (Running(p) /\ frame[p].raised = None)
        => /\ \A i \in DOMAIN writes[p] :
                  (writes[p][i].op = "insert") <=> ~writes[p][i].present
           /\ frame[p].nr_inserted = Cardinality(WritesOf(p, "insert"))
           /\ frame[p].nr_replaced = Cardinality(WritesOf(p, "replace"))
           /\ SameBag([i \in DOMAIN writes[p] |-> writes[p][i].chunk]
                          \o frame[p].todo,
                      frame[p].document.chunks)
           /\ Returned(p)
                  => /\ frame[p].todo = <<>>
                     /\ frame[p].nr_inserted + frame[p].nr_replaced
                            = Len(frame[p].document.chunks)

C2_Witness ==
    /\ Returned(1)
    /\ frame[1].nr_inserted = 1
    /\ frame[1].nr_replaced = 1

\* C3: a run on a document whose n (distinct) chunk ids are all absent from
\* the target collection returns inserted = n and replaced = 0, leaves the
\* collection with exactly n more records, and leaves every record that
\* was there before, and every other scope, unchanged.
C3_InsertsOnlyAddRecords ==
    \A p \in AllProcs :
        ( /\ Returned(p)
          /\ DistinctIds(frame[p].document.chunks)
          /\ IdsOf(frame[p].document.chunks)
                 \cap UuidsOf(pre[p][3][ScopeOf(frame[p])]) = {} )
        => LET n == Len(frame[p].document.chunks)
               before == pre[p][3][ScopeOf(frame[p])]
               after == store[ScopeOf(frame[p])]
           IN  /\ frame[p].nr_inserted = n /\ frame[p].nr_replaced = 0
               /\ Len(after) = Len(before) + n
               /\ \A i \in DOMAIN before :
                      Occurrences(after, before[i]) = Occurrences(before, before[i])
               /\ \A s \in Scopes \ {ScopeOf(frame[p])} :
                      store[s] = pre[p][3][s]

C3_Witness ==
    /\ Returned(1)
    /\ DistinctIds(frame[1].document.chunks)
    /\ IdsOf(frame[1].document.chunks)
           \cap UuidsOf(pre[1][3][ScopeOf(frame[1])]) = {}
    /\ Len(frame[1].document.chunks) >= 1
    /\ pre[1][3][ScopeOf(frame[1])] # <<>>
    /\ frame[1].nr_inserted = Len(frame[1].document.chunks)

\* C4: the hierarchy_level of successive backend writes of a run never
\* decreases, whatever the order of document.chunks.
C4_WritesAscendByLevel ==
    \A p \in AllProcs :
        \A i, j \in DOMAIN writes[p] :
            i < j => writes[p][i].chunk.hierarchy_level
                         <= writes[p][j].chunk.hierarchy_level

\* C5: a chunk whose parent_id names another chunk of the document is
\* written only after that parent has been written in the same run.
C5_ParentWrittenFirst ==
    \A p \in AllProcs :
        \A j \in DOMAIN writes[p] :
            writes[p][j].chunk.parent_id \in IdsOf(frame[p].document.chunks)
                => \E i \in 1..(j - 1) :
                       writes[p][i].chunk.chunk_id
                           = writes[p][j].chunk.parent_id

\* C7: a run whose resolved tenant does not exist in the (existing) target
\* collection ends with TenantNotFound, issues no existence check, insert
\* or replace, and leaves the tenants and the stored records as they were.
C7_UnknownTenantRejected ==
    \A p \in AllProcs :
        ( /\ Running(p)
          /\ frame[p].collection_name \in collections
          /\ frame[p].tenant_name # None
          /\ frame[p].tenant_name \notin tenants[frame[p].collection_name] )
        => /\ pc[p] \in {"get_collection", "check_tenant", "done"}
           /\ pc[p] = "done" => frame[p].raised = "TenantNotFound"
           /\ writes[p] = <<>>
           /\ backend = pre[p]

C7_Witness ==
    /\ pc[1] = "done"
    /\ frame[1].raised = "TenantNotFound"
    /\ frame[1].arg_tenant = None
    /\ frame[1].tenant_name = "t2"
    /\ "t2" \notin tenants[frame[1].collection_name]

\* C8: a run whose resolved collection does not exist ends with
\* CollectionNotFound before any tenant or chunk existence check, insert
\* or replace, and the collection is not created.
C8_UnknownCollectionRejected ==
    \A p \in AllProcs :
        ( /\ Running(p)
          /\ frame[p].collection_name # None
          /\ frame[p].collection_name \notin collections )
        => /\ pc[p] \in {"get_collection", "done"}
           /\ pc[p] = "done" => frame[p].raised = "CollectionNotFound"
           /\ writes[p] = <<>>
           /\ backend = pre[p]

C8_Witness ==
    /\ pc[1] = "done"
    /\ frame[1].raised = "CollectionNotFound"
    /\ frame[1].collection_name = "B"
    /\ "B" \notin collections

\* C9: the collection and tenant names of a run are the call-time value
\* when one is given and the configured default otherwise, these are the
\* names the run returns, and the run fails with MissingCollectionName
\* whenever neither the call nor the default supplies a collection name
\* (an empty string names no collection).
Supplied(name) == name # None /\ name # ""

C9_ResolvedNames ==
    \A p \in AllProcs :
        Running(p)
        => LET f == frame[p]
               base == base_persist_params
           IN  IF ~Supplied(f.arg_collection) /\ ~Supplied(base.collection_name)
               THEN pc[p] = "done" /\ f.raised = "MissingCollectionName"
               ELSE /\ f.raised # "MissingCollectionName"
                    /\ f.collection_name =
                           IF Supplied(f.arg_collection) THEN f.arg_collection
                           ELSE base.collection_name
                    /\ f.tenant_name =
                           IF Supplied(f.arg_tenant) THEN f.arg_tenant
                           ELSE base.tenant_name

\* C6: once two concurrent runs that wrote the same chunk id have both
\* finished, the collection holds exactly one record for that id, and it
\* is the object of the write that happened last.
C6_ConcurrentRunsConverge ==
    (\A p \in AllProcs : pc[p] = "idle")
    => \A s \in Scopes : \A id \in ChunkIds :
           last_write[s][id] # NoObject
           => /\ Cardinality({ i \in DOMAIN store[s] :
                                   store[s][i].uuid = id }) = 1
              /\ \E i \in DOMAIN store[s] : store[s][i] = last_write[s][id]

\* C10: the document_metadata stored with every chunk has its keys
\* sanitized at every mapping level (a character that is no letter, digit
\* or underscore, and a first character that is no letter or underscore,
\* becomes "_"; values stay), and a document with an empty key makes the
\* run fail with InvalidMetadataKey (unless its collection or tenant was
\* rejected first).
SanitizedKey(key) ==
    [i \in DOMAIN key |->
        IF key[i] \in Letters \cup {"_"} \/ (i > 1 /\ key[i] \in Digits)
        THEN key[i] ELSE "_"]

RECURSIVE SanitizedMetadata(_)
SanitizedMetadata(entries) ==
    [i \in DOMAIN entries |->
        [key |-> SanitizedKey(entries[i].key),
         nested |-> entries[i].nested,
         sub |-> SanitizedMetadata(entries[i].sub)]]

RECURSIVE HasEmptyKey(_)
HasEmptyKey(entries) ==
    \E i \in DOMAIN entries :
        entries[i].key = <<>> \/ HasEmptyKey(entries[i].sub)

C10_MetadataKeysSanitized ==
    \A p \in AllProcs :
        Running(p)
        => LET metadata == frame[p].document.document_metadata
           IN  /\ \A j \in DOMAIN writes[p] :
                      last_write[ScopeOf(frame[p])]
                                [writes[p][j].chunk.chunk_id]
                          .properties.document_metadata
                          = SanitizedMetadata(metadata)
               /\ ( /\ pc[p] = "done" /\ HasEmptyKey(metadata)
                    /\ frame[p].raised \notin {"MissingCollectionName",
                            "CollectionNotFound", "TenantNotFound"} )
                      => frame[p].raised = "InvalidMetadataKey"

(***************************************************************************)
(* Objects as a backend query returns them (weaviate's Object): uuid,      *)
(* properties, references (None or a dict with the list of "parent"        *)
(* objects) and vector (None or a dict from vector name to embedding).     *)
(* The objects under "parent" carry no references of their own.  An object *)
(* without references is a root chunk (hierarchy_level 0), the others are  *)
(* at level 1; the document_metadata differs from uuid to uuid.            *)
(***************************************************************************)
ParentUuids == {2, 8, 9}

Filenames == {"f1", "f2"}

VectorNames == {"default", "low_space"}

NoReferences == [state |-> "none", parent |-> <<>>]

NoVector == [state |-> "none", named |-> [n \in VectorNames |-> 0]]

VectorsOf(uuid) ==
    [state |-> "dict",
     named |-> [n \in VectorNames |->
                   IF n = "default" THEN uuid ELSE uuid + 10]]

MetadataOf(uuid) == << Leaf([i \in 1..uuid |-> "k"]) >>

Object(uuid, filename, references, vector) ==
    [uuid |-> uuid,
     properties |-> [hierarchy_level |->
                         IF references.state = "none" THEN 0 ELSE 1,
                     filename |-> filename,
                     document_metadata |-> MetadataOf(uuid),
                     content |-> uuid],
     references |-> references,
     vector |-> vector]

ParentObject(uuid) == Object(uuid, "f1", NoReferences, NoVector)

ParentLists ==
    UNION { [1..n -> { ParentObject(u) : u \in ParentUuids }] : n \in 1..2 }

References == { [state |-> "dict", parent |-> ps] : ps \in ParentLists }

\* what varies from one result to another
Variants(filenames, references, with_vector) ==
    [filename : filenames, references : references,
     with_vector : with_vector]

ObjectOf(uuid, variant) ==
    Object(uuid, variant.filename, variant.references,
           IF variant.with_vector THEN VectorsOf(uuid) ELSE NoVector)

NotOwnParent(uuid, references) ==
    \A k \in DOMAIN references.parent : references.parent[k].uuid # uuid

\* the results of one query: objects of different uuids (the i-th result
\* has uuid i), none of them its own parent
ResultsOver(variants) ==
    { [i \in DOMAIN vs |-> ObjectOf(i, vs[i])] :
        vs \in { s \in UNION { [1..n -> variants] : n \in 0..MaxResults } :
                   \A i \in DOMAIN s : NotOwnParent(i, s[i].references) } }

(***************************************************************************)
(* AbstractSearcher.apply_parent_strategy.  kwargs holds, per keyword,     *)
(* whether it is given and its value.  Subscripting the references of an   *)
(* object that has none (None) raises TypeError.                           *)
(***************************************************************************)
Given(value) == [value |-> value, given |-> TRUE]

NotGiven == [value |-> None, given |-> FALSE]

RECURSIVE add_parents(_, _, _)
\* lines 251-254, 262-265: append the parents not seen yet
add_parents(parents, seen, acc) ==
    IF parents = <<>>
    THEN [seen |-> seen, list |-> acc]
    ELSE IF Head(parents).uuid \notin seen
         THEN add_parents(Tail(parents), seen \cup {Head(parents).uuid},
                          Append(acc, Head(parents)))
         ELSE add_parents(Tail(parents), seen, acc)

RECURSIVE strategy_loop(_, _, _, _)
\* lines 250-255 (keep_children FALSE) and 260-266 (keep_children TRUE)
strategy_loop(keep_children, query_results, seen, acc) ==
    IF query_results = <<>>
    THEN [raised |-> None, objects |-> acc]
    ELSE LET child == Head(query_results)
             with_child == IF keep_children THEN Append(acc, child) ELSE acc
         IN  IF child.references.state = "none"
             THEN [raised |-> "TypeError", objects |-> <<>>]
             ELSE LET added == add_parents(child.references.parent, seen,
                                           with_child)
                  IN  strategy_loop(keep_children, Tail(query_results),
                                    added.seen, added.list)

resolve_parent_strategy(base, kwargs) ==
    IF kwargs.parent_strategy.given
    THEN kwargs.parent_strategy.value
    ELSE base.parent_strategy

apply_parent_strategy(base, kwargs, query_results) ==
    LET parent_strategy == resolve_parent_strategy(base, kwargs)
    IN  CASE parent_strategy = None ->
                 [raised |-> None, objects |-> query_results]
          [] parent_strategy = "replace" ->
                 strategy_loop(FALSE, query_results, {}, <<>>)
          [] OTHER ->
                 strategy_loop(TRUE, query_results, {}, <<>>)

(***************************************************************************)
(* SpecParents: searchers configured with each parent strategy apply it,   *)
(* with and without an override, to the results of a query: objects with   *)
(* one or two parents and root objects, which have no references.          *)
(***************************************************************************)
ParentStrategies == {None, "replace", "include", "siblings"}

StrategyKwargs ==
    { [parent_strategy |-> NotGiven] } \cup
    { [parent_strategy |-> Given(s)] : s \in {None, "replace", "include"} }

ChildVariants ==
    Variants({"f1"}, {NoReferences} \cup References, {FALSE})

InitSearcher(bases) ==
    InitBoth({[collection_name |-> "A", tenant_name |-> None]}, bases)

apply_parent_strategy_call(kwargs_set, results_set) ==
    /\ search_call = IdleCall
    /\ \E kwargs \in kwargs_set, query_results \in results_set :
           search_call' =
               [op |-> "apply_parent_strategy",
                input |-> [query_results |-> query_results,
                           kwargs |-> kwargs],
                output |-> apply_parent_strategy(base_query_params, kwargs,
                                                 query_results)]
    /\ UNCHANGED <<backend, persist_vars, client_vars, searcher_config,
                   base_query_params>>

InitParents ==
    InitSearcher({ [NoQueryParams EXCEPT !.parent_strategy = s] :
                     s \in ParentStrategies })

ChildResults == ResultsOver(ChildVariants)

NextParents ==
    \/ apply_parent_strategy_call(StrategyKwargs, ChildResults)
    \/ search_return

SpecParents == InitParents /\ [][NextParents]_vars

(***************************************************************************)
(* compile_chunked_documents: the results are regrouped into documents.    *)
(* document_index is a dict from filename to document: it keeps the order  *)
(* in which the filenames were inserted, and is modelled as the list of    *)
(* its documents.  An optional embedding is a list of at most one vector.  *)
(***************************************************************************)
\* mutant: the last listed parent is taken
parent_id_of_last(o) ==
    IF o.references.state # "none"
    THEN o.references.parent[Len(o.references.parent)].uuid
    ELSE NoId

\* line 96: str(o.references["parent"][0].uuid) if o.references else None
parent_id_of(o) ==
    IF o.references.state # "none"
    THEN o.references.parent[1].uuid
    ELSE NoId

\* line 97: o.vector[named_vector] if o.vector is not None else None
embedding_of(o, named_vector) ==
    IF o.vector.state # "none"
    THEN << o.vector.named[named_vector] >>
    ELSE <<>>

\* lines 88-98
chunk_of(o, named_vector) ==
    [chunk_id |-> o.uuid,
     content |-> o.properties.content,
     hierarchy_level |-> o.properties.hierarchy_level,
     parent_id |-> parent_id_of(o),
     embedding |-> embedding_of(o, named_vector)]

\* mutant: every result opens a document of its own
index_chunk_new_document(document_index, properties, chunk) ==
    Append(document_index,
           [filename |-> properties.filename,
            document_metadata |-> properties.document_metadata,
            chunks |-> <<chunk>>])

\* lines 99-107: append to the document of the filename, or open it
index_chunk(document_index, properties, chunk) ==
    IF \E d \in DOMAIN document_index :
           document_index[d].filename = properties.filename
    THEN [d \in DOMAIN document_index |->
             IF document_index[d].filename = properties.filename
             THEN [document_index[d] EXCEPT
                      !.chunks = Append(document_index[d].chunks, chunk)]
             ELSE document_index[d]]
    ELSE Append(document_index,
                [filename |-> properties.filename,
                 document_metadata |-> properties.document_metadata,
                 chunks |-> <<chunk>>])

RECURSIVE reassemble_loop(_, _, _)
\* lines 86-107
reassemble_loop(query_results, named_vector, document_index) ==
    IF query_results = <<>>
    THEN document_index
    ELSE reassemble_loop(Tail(query_results), named_vector,
             index_chunk(document_index, Head(query_results).properties,
                         chunk_of(Head(query_results), named_vector)))

compile_chunked_documents(query_results, named_vector) ==
    reassemble_loop(query_results, named_vector, <<>>)

(***************************************************************************)
(* SpecReassemble: compile_chunked_documents is called, for either vector  *)
(* name, on results of one or two filenames, with and without parents and  *)
(* with and without vectors.                                               *)
(***************************************************************************)
OtherParents ==
    { r \in References :
        /\ \A k \in DOMAIN r.parent : r.parent[k].uuid > MaxResults
        /\ \A j, k \in DOMAIN r.parent : j # k => r.parent[j] # r.parent[k] }

FoundVariants ==
    Variants({"f2"}, {NoReferences}, {FALSE}) \cup
    Variants({"f1"}, {NoReferences} \cup OtherParents, BOOLEAN)

compile_chunked_documents_call(results_set, names) ==
    /\ search_call = IdleCall
    /\ \E query_results \in results_set, named_vector \in names :
           search_call' =
               [op |-> "compile_chunked_documents",
                input |-> [query_results |-> query_results,
                           named_vector |-> named_vector],
                output |-> compile_chunked_documents(query_results,
                                                     named_vector)]
    /\ UNCHANGED <<backend, persist_vars, client_vars, searcher_config,
                   base_query_params>>

FoundResults == ResultsOver(FoundVariants)

NextReassemble ==
    \/ compile_chunked_documents_call(FoundResults, VectorNames)
    \/ search_return

SpecReassemble == Init /\ [][NextReassemble]_vars

(***************************************************************************)
(* AbstractSearcher.create_query_params.  The keyword arguments override   *)
(* the base parameters; the collection and tenant are resolved through the *)
(* client (calls), whose lookups fail on unknown names as the repository's *)
(* MockCollections.get does; a negative operation level is resolved with   *)
(* the aggregate maximum of hierarchy_level over the resolved handle.      *)
(***************************************************************************)
\* lines 170-171: query_params = base.copy(); query_params.update(**kwargs)
merge_params(base, kwargs) ==
    [k \in DOMAIN base |->
        IF kwargs[k].given THEN kwargs[k].value ELSE base[k]]

Missing(name) == name \in {None, ""}

\* Metrics("hierarchy_level").integer(maximum=True) over the objects
maximum_level(objects) ==
    CHOOSE m \in { objects[i].properties.hierarchy_level :
                     i \in DOMAIN objects } :
        \A i \in DOMAIN objects : objects[i].properties.hierarchy_level <= m

\* mutant: the deepest level is counted from -0
calculate_operation_level_off_by_one(objects, operation_level) ==
    maximum_level(objects) + operation_level

\* lines 111-117
calculate_operation_level(objects, operation_level) ==
    maximum_level(objects) + operation_level + 1

hierarchy_filter(operation_level) ==
    FilterValue("equal", <<"hierarchy_level">>, operation_level)

NoDescriptor ==
    [collection |-> <<"", None>>, target_vector |-> None,
     filter |-> NoFilter, return_references |-> <<>>,
     operation_level |-> <<>>]

Failed(error, calls) ==
    [raised |-> error, calls |-> calls, query_params |-> NoDescriptor]

\* mutant: the name is only tested against None
missing_collection_name_none_only(query_params) ==
    query_params.collection_name = None

\* line 173
missing_collection_name(query_params) ==
    Missing(query_params.collection_name)

create_query_params(base, kwargs, existing, known, objects) ==
    LET query_params == merge_params(base, kwargs)
        name == query_params.collection_name
        tenant == query_params.tenant_name
        scope == << name, IF Missing(tenant) THEN None ELSE tenant >>
        get_calls == << <<"__enter__">>, <<"collections.get", name>>,
                        <<"__exit__">> >>
        tenant_calls == IF Missing(tenant) THEN get_calls
                        ELSE Append(get_calls, <<"tenants.get", tenant>>)
        compiled == compile_filter("search", query_params)
        level == query_params.operation_level
        negative == level # <<>> /\ level[1] < 0
        all_calls == IF negative
                     THEN Append(tenant_calls, <<"aggregate.over_all">>)
                     ELSE tenant_calls
        resolved == IF negative
                    THEN calculate_operation_level(objects[scope], level[1])
                    ELSE level[1]
    IN  CASE missing_collection_name(query_params) ->
                 Failed("MissingCollectionName", <<>>)
          [] ~collections_get(existing, name) ->
                 Failed("CollectionNotFound", get_calls)
          [] ~Missing(tenant) /\ ~tenants_exists(known[name], tenant) ->
                 Failed("TenantNotFound", tenant_calls)
          [] compiled.raised # None ->
                 Failed(compiled.raised, tenant_calls)
          [] negative /\ objects[scope] = <<>> ->
                 Failed("TypeError", all_calls)
          [] OTHER ->
                 [raised |-> None,
                  calls |-> all_calls,
                  query_params |->
                     [collection |-> scope,
                      target_vector |->
                          IF ~Missing(query_params.vector_name)
                          THEN query_params.vector_name
                          ELSE "default",
                      filter |->
                          IF level = <<>> THEN compiled.filter
                          ELSE IF compiled.filter # NoFilter
                               THEN filter_and(compiled.filter,
                                               hierarchy_filter(resolved))
                               ELSE hierarchy_filter(resolved),
                      return_references |->
                          IF query_params.parent_strategy # None
                          THEN << "parent_id" >>
                          ELSE <<>>,
                      operation_level |->
                          IF level = <<>> THEN <<>> ELSE << resolved >>]]

(***************************************************************************)
(* SpecQuery: one caller persists documents of one to MaxLevel + 1 levels  *)
(* into collection "A" and its tenant "t1" and, between these runs, has a  *)
(* searcher configured with or without a collection, a tenant and an       *)
(* operation level compile its query parameters, with and without          *)
(* overrides.                                                              *)
(***************************************************************************)
NoKwargs ==
    [collection_name |-> NotGiven, tenant_name |-> NotGiven,
     parent_strategy |-> NotGiven,
     operation_level |-> [value |-> <<>>, given |-> FALSE],
     having_all |-> [value |-> NoMapping, given |-> FALSE],
     having_any |-> [value |-> NoMapping, given |-> FALSE],
     vector_name |-> NotGiven]

QueryBases ==
    { [NoQueryParams EXCEPT !.collection_name = c, !.tenant_name = t,
                            !.operation_level = l] :
        c \in {None, "", "A"}, t \in {None, "t1"}, l \in { <<>>, <<-1>> } }

QueryKwargs ==
    { [NoKwargs EXCEPT !.collection_name = c, !.tenant_name = t,
                       !.operation_level = l] :
        c \in { NotGiven, Given(None), Given(""), Given("A"), Given("B") },
        t \in { NotGiven, Given("t1"), Given("t2") },
        l \in { [value |-> <<>>, given |-> FALSE], Given(<<0>>),
                Given(<<-1>>), Given(<<-2>>) } }

LevelDocuments ==
    { [filename |-> "f1", document_metadata |-> PlainMetadata,
       chunks |-> [i \in 1..n |-> DocumentChunk(i)]] :
        n \in 1..(MaxLevel + 1) }

LevelRequests == LevelDocuments \X {"A"} \X {None, "t1"}

create_query_params_call(kwargs_set) ==
    /\ search_call = IdleCall
    /\ CanEnter
    /\ \E kwargs \in kwargs_set :
           /\ search_call' =
                  [op |-> "create_query_params",
                   input |-> [objects |-> store,
                              kwargs |-> kwargs],
                   output |-> create_query_params(base_query_params, kwargs,
                                                  collections, tenants, store)]
           /\ acquire(~missing_collection_name(
                          merge_params(base_query_params, kwargs)))
    /\ UNCHANGED <<backend, persist_vars, using, admin_call, searcher_config,
                   base_query_params>>

InitQuery == InitSearcher(QueryBases)

NextQuery ==
    \/ search_call = IdleCall /\ persist_document(1, LevelRequests)
    \/ pc[1] = "idle" /\ create_query_params_call(QueryKwargs)
    \/ search_return

SpecQuery == InitQuery /\ [][NextQuery]_vars

(***************************************************************************)
(* AbstractSearcher.search: the query parameters are compiled, the one     *)
(* search function of the searcher's class is called with them, the parent *)
(* strategy is applied to what the backend answers and the objects are     *)
(* regrouped into documents.  The backend answers with objects or fails;   *)
(* nothing in search catches an exception.                                 *)
(***************************************************************************)
\* mutant: every searcher runs a hybrid search
conduct_search_hybrid(class) == "hybrid"

\* lines 305-331: _conduct_search of the three searcher classes
conduct_search(class) ==
    CASE class = "SimilaritySearcher" -> "near_text"
      [] class = "VectorSimilaritySearcher" -> "near_vector"
      [] OTHER -> "hybrid"

\* mutant: the overrides are written into the base parameters
base_updated_in_place(base, kwargs) == merge_params(base, kwargs)

\* line 170: the overrides are applied to a copy; the base is what it was
base_after_call(base, kwargs) == base

SearchOutcome(raised, calls, query_params, documents) ==
    [raised |-> raised, query_params |-> query_params, calls |-> calls,
     documents |-> documents]

\* lines 287-302
search(base, kwargs, class, existing, known, objects, answer) ==
    LET strategy == [parent_strategy |->
                        Given(merge_params(base, kwargs).parent_strategy)]
        outcome(compiled, applied, searched) ==
            CASE compiled.raised # None ->
                     SearchOutcome(compiled.raised, compiled.calls,
                                   compiled.query_params, <<>>)
              [] answer.failed ->
                     SearchOutcome("SearchBackendError", searched,
                                   compiled.query_params, <<>>)
              [] applied.raised # None ->
                     SearchOutcome(applied.raised, searched,
                                   compiled.query_params, <<>>)
              [] OTHER ->
                     SearchOutcome(None, searched, compiled.query_params,
                                   compile_chunked_documents(
                                       applied.objects,
                                       compiled.query_params.target_vector))
        called(compiled) ==
            outcome(compiled,
                    apply_parent_strategy(base, strategy, answer.objects),
                    Append(compiled.calls, << conduct_search(class) >>))
    IN  called(create_query_params(base, kwargs, existing, known, objects))

\* what the backend does with a search call: it fails, or answers objects
Answers(results_set) ==
    { [objects |-> <<>>, failed |-> TRUE] } \cup
    { [objects |-> r, failed |-> FALSE] : r \in results_set }

search_call_step(kwargs_set, answers) ==
    /\ search_call = IdleCall
    /\ CanEnter
    /\ \E kwargs \in kwargs_set, answer \in answers :
           /\ search_call' =
                  [op |-> "search",
                   input |-> [kwargs |-> kwargs, answer |-> answer],
                   output |-> search(base_query_params, kwargs,
                                     searcher_class, collections, tenants,
                                     store, answer)]
           /\ base_query_params' = base_after_call(base_query_params, kwargs)
           /\ acquire(~missing_collection_name(
                          merge_params(base_query_params, kwargs)))
    /\ UNCHANGED <<backend, persist_vars, using, admin_call, searcher_config>>

(***************************************************************************)
(* SpecSearch: searchers of the three classes, configured with and without *)
(* a parent strategy, an operation level and a having_any filter, search   *)
(* collection "A" (or, by override, the missing collection "B") with and   *)
(* without overrides, one call after the other; the backend fails or       *)
(* answers root objects and children of one parent.                        *)
(***************************************************************************)
OneFilter == Mapping(<< FilterEntry(<<"a">>) >>)

SearchBases ==
    { [NoQueryParams EXCEPT !.collection_name = "A",
                            !.parent_strategy = s,
                            !.operation_level = l,
                            !.having_any = h] :
        s \in {None, "replace"}, l \in { <<>>, <<0>> },
        h \in {NoMapping, OneFilter} }

SearchKwargs ==
    { [NoKwargs EXCEPT !.collection_name = c, !.parent_strategy = s,
                       !.operation_level = l, !.having_all = h] :
        c \in { NotGiven, Given("B") },
        s \in { NotGiven, Given(None), Given("replace"), Given("include") },
        l \in { [value |-> <<>>, given |-> FALSE], Given(<<>>), Given(<<0>>),
                Given(<<1>>), Given(<<-1>>) },
        h \in { [value |-> NoMapping, given |-> FALSE], Given(OneFilter) } }

OneParent ==
    { r \in OtherParents : Len(r.parent) = 1 /\ r.parent[1].uuid = 8 }

SearchVariants == Variants({"f1"}, {NoReferences} \cup OneParent, {FALSE})

InitSearch ==
    InitAll({[collection_name |-> "A", tenant_name |-> None]},
            SearchBases, SearcherClasses)

SearchAnswers == Answers(ResultsOver(SearchVariants))

NextSearch ==
    \/ search_call_step(SearchKwargs, SearchAnswers)
    \/ search_return

SpecSearch == InitSearch /\ [][NextSearch]_vars

(***************************************************************************)
(* Callers of the client factory: a `with` block hands the caller the      *)
(* factory's connection and ends without telling the factory.              *)
(***************************************************************************)
\* `with self.client_factory as client:` a caller enters a block
with_enter(p) ==
    /\ using[p] = NoClient
    /\ CanEnter
    /\ LET entered == factory_enter(client, connections)
       IN  /\ client' = entered.client
           /\ connections' = entered.connections
           /\ using' = [using EXCEPT ![p] = entered.client]
    /\ UNCHANGED <<backend, persist_vars, search_vars, admin_call>>

\* lines 91-92: the block ends; __exit__ leaves the factory as it is
with_exit(p) ==
    /\ using[p] # NoClient
    /\ using' = [using EXCEPT ![p] = NoClient]
    /\ UNCHANGED <<backend, persist_vars, search_vars, client, connections,
                   admin_call>>

\* the backend stops or resumes answering the liveness probe of a connection
liveness_change ==
    /\ \E c \in Connections :
           /\ connections[c] \in {"live", "not_live"}
           /\ connections' = [connections EXCEPT ![c] =
                  IF connections[c] = "live" THEN "not_live" ELSE "live"]
    /\ UNCHANGED <<backend, persist_vars, search_vars, client, using,
                   admin_call>>

(***************************************************************************)
(* SpecFactory: two callers enter and leave `with` blocks on one factory   *)
(* while the liveness of the connections changes.                          *)
(***************************************************************************)
NextFactory ==
    \/ \E p \in AllProcs : with_enter(p)
    \/ \E p \in AllProcs : with_exit(p)
    \/ liveness_change

SpecFactory == Init /\ [][NextFactory]_vars

(***************************************************************************)
(* WeaviatePersistor.create_collection, create_tenant and get_or_create.   *)
(* Each is given as the outcome of the call on a backend: the exception    *)
(* raised (or None), the handle returned (a collection name, with a tenant *)
(* name for a tenant-scoped handle; <<>> when nothing is returned) and the *)
(* collections and tenants of the backend after the call.                  *)
(***************************************************************************)
\* client.collections.exists(collection_name)
collections_exists(existing, collection_name) == collection_name \in existing

\* client.collections.create(name=collection_name, ...)
collections_create(existing, collection_name) ==
    existing \cup {collection_name}

\* collection.tenants.create([tenant_name])
tenants_create(known, collection_name, tenant_name) ==
    [known EXCEPT ![collection_name] = known[collection_name] \cup {tenant_name}]

AdminOutcome(raised, returned, existing, known) ==
    [raised |-> raised, returned |-> returned,
     collections |-> existing, tenants |-> known]

\* lines 140-143: params = base.copy(); params.update(persist_params)
collection_name_of(base, persist_params) ==
    IF persist_params.collection_name.given
    THEN persist_params.collection_name.value
    ELSE base.collection_name

\* mutant: the omnipotent flag is not looked at, an existing name is returned
existing_collection_always_returned(omnipotent) == TRUE

\* line 149: `if omnipotent:`
existing_collection_returned(omnipotent) == omnipotent

\* lines 140-168
create_collection(base, persist_params, omnipotent, existing, known) ==
    LET collection_name == collection_name_of(base, persist_params)
    IN  CASE collection_name = None ->
                 AdminOutcome("MissingCollectionName", <<>>, existing, known)
          [] collections_exists(existing, collection_name) ->
                 IF existing_collection_returned(omnipotent)
                 THEN AdminOutcome(None, <<collection_name>>, existing, known)
                 ELSE AdminOutcome("CollectionAlreadyExists", <<>>,
                                   existing, known)
          [] OTHER ->
                 AdminOutcome(None, <<collection_name>>,
                              collections_create(existing, collection_name),
                              known)

\* lines 186-201.  Line 201 asks the collection handle for `collections`
\* and for `with_tennant`, neither of which a collection handle has.
create_tenant(collection_name, tenant_name, idempotent, existing, known) ==
    CASE ~collections_exists(existing, collection_name) ->
             AdminOutcome("CollectionNotFound", <<>>, existing, known)
      [] tenants_exists(known[collection_name], tenant_name) ->
             IF idempotent
             THEN AdminOutcome(None, <<collection_name, tenant_name>>,
                               existing, known)
             ELSE AdminOutcome("TenantAlreadyExists", <<>>, existing, known)
      [] OTHER ->
             AdminOutcome("AttributeError", <<>>, existing,
                          tenants_create(known, collection_name, tenant_name))

\* lines 204-222: params is a dict with a collection_name and a tenant_name,
\* either of which may be missing or None
get_or_create(base, params, existing, known) ==
    LET collection_name == IF params.collection_name.given
                           THEN params.collection_name.value ELSE None
        tenant_name == IF params.tenant_name.given
                       THEN params.tenant_name.value ELSE None
        created == IF ~collections_exists(existing, collection_name)
                   THEN create_collection(base,
                            [collection_name |-> params.collection_name],
                            FALSE, existing, known)
                   ELSE AdminOutcome(None, <<collection_name>>,
                                     existing, known)
    IN  CASE collection_name = None ->
                 AdminOutcome("MissingCollectionName", <<>>, existing, known)
          [] created.raised # None -> created
          [] tenant_name = None -> created
          [] ~tenants_exists(created.tenants[collection_name], tenant_name) ->
                 create_tenant(collection_name, tenant_name, FALSE,
                               created.collections, created.tenants)
          [] OTHER ->
                 AdminOutcome("AttributeError", <<>>,
                              created.collections, created.tenants)

\* a call: its outcome is applied to the backend and kept for the caller,
\* with the collections and tenants the backend had before the call
admin_step(op, input, outcome) ==
    /\ collections' = outcome.collections
    /\ tenants' = outcome.tenants
    /\ admin_call' =
           [op |-> op,
            input |-> input,
            output |-> [raised |-> outcome.raised,
                        returned |-> outcome.returned],
            before |-> [collections |-> collections, tenants |-> tenants]]
    /\ acquire(outcome.raised # "MissingCollectionName")
    /\ UNCHANGED <<store, persist_vars, search_vars, using>>

CreateCollectionParams ==
    { [collection_name |-> n] :
        n \in {NotGiven} \cup { Given(c) : c \in {None} \cup CollectionNames } }

create_collection_call(params_set) ==
    /\ admin_call = IdleAdmin
    /\ CanEnter
    /\ \E persist_params \in params_set, omnipotent \in BOOLEAN :
           admin_step("create_collection",
                      << persist_params, omnipotent >>,
                      create_collection(base_persist_params, persist_params,
                                        omnipotent, collections, tenants))

create_tenant_call(names, tenant_names) ==
    /\ admin_call = IdleAdmin
    /\ CanEnter
    /\ \E collection_name \in names, tenant_name \in tenant_names,
          idempotent \in BOOLEAN :
           admin_step("create_tenant",
                      << collection_name, tenant_name, idempotent >>,
                      create_tenant(collection_name, tenant_name, idempotent,
                                    collections, tenants))

GetOrCreateParams ==
    { [collection_name |-> n, tenant_name |-> t] :
        n \in {NotGiven} \cup { Given(c) : c \in {None} \cup CollectionNames },
        t \in {NotGiven} \cup { Given(c) : c \in TenantArgs } }

get_or_create_call(params_set) ==
    /\ admin_call = IdleAdmin
    /\ CanEnter
    /\ \E params \in params_set :
           admin_step("get_or_create", << params >>,
                      get_or_create(base_persist_params, params,
                                    collections, tenants))

\* the caller takes the result (or the exception) of the call
admin_return ==
    /\ admin_call # IdleAdmin
    /\ admin_call' = IdleAdmin
    /\ UNCHANGED <<backend, persist_vars, search_vars, client, connections,
                   using>>

(***************************************************************************)
(* SpecAdmin: one caller creates collections and tenants, with and without *)
(* the flag that accepts existing ones, on a persistor configured with or  *)
(* without a default collection name.                                      *)
(***************************************************************************)
InitAdmin ==
    InitWith({ [collection_name |-> c, tenant_name |-> None] :
                 c \in {None, "A", "B"} })

NextAdmin ==
    \/ create_collection_call(CreateCollectionParams)
    \/ create_tenant_call(CollectionNames, TenantNames)
    \/ get_or_create_call(GetOrCreateParams)
    \/ admin_return

SpecAdmin == InitAdmin /\ [][NextAdmin]_vars

(***************************************************************************)
(* Vocabulary of the properties of the query side.                         *)
(***************************************************************************)
Called(op) == search_call.op = op

LeavesOf(filter) ==
    IF filter.kind = "value" THEN <<filter>> ELSE filter.filters

IsPrefix(s, t) == Len(s) <= Len(t) /\ SubSeq(t, 1, Len(s)) = s

NoSpaceIn(s) == \A i \in DOMAIN s : s[i] # " "

\* the operator token of a key: what follows its last space
TokenOf(key) ==
    CHOOSE t \in { SubSeq(key, k, Len(key)) : k \in 1..(Len(key) + 1) } :
        /\ NoSpaceIn(t)
        /\ Len(t) < Len(key)
        /\ key[Len(key) - Len(t)] = " "

\* the attribute name of a key with a token: what precedes the spaces that
\* precede the token
NameOf(key) ==
    CHOOSE name \in { SubSeq(key, 1, k) : k \in 0..Len(key) } :
        /\ name = <<>> \/ name[Len(name)] # " "
        /\ \E n \in 1..Len(key) : key = name \o Spaces(n) \o TokenOf(key)

\* the operator table of the filter compiler
OperatorOf(token) ==
    CASE token \in { <<"=">>, <<"=", "=">> } -> "equal"
      [] token = <<"!", "=">> -> "not_equal"
      [] token = <<"<">> -> "less_than"
      [] token = <<"<", "=">> -> "less_or_equal"
      [] token = <<">">> -> "greater_than"
      [] token = <<">", "=">> -> "greater_or_equal"
      [] token = <<"@">> -> "contains_any"
      [] OTHER -> "unsupported"

OperatorOfKey(key) ==
    IF NoSpaceIn(key) THEN "equal" ELSE OperatorOf(TokenOf(key))

\* C11: for a non-empty having_all mapping (and no having_any), either
\* compiler yields one leaf per entry, in mapping order, with the operator
\* the table gives for the key's suffix token (none, "=" or "==": equal),
\* and fails with InvalidFilter if some token is not in the table.
C11_OneLeafPerEntry ==
    ( /\ Called("compile_filter")
      /\ search_call.input.query_params.having_all.state = "map"
      /\ search_call.input.query_params.having_all.items # <<>>
      /\ search_call.input.query_params.having_any.state = "none" )
    => LET items == search_call.input.query_params.having_all.items
           out == search_call.output
           leaves == LeavesOf(out.filter)
       IN  IF \E i \in DOMAIN items :
                  OperatorOfKey(items[i].key) = "unsupported"
           THEN out.raised = "InvalidFilter"
           ELSE /\ out.raised = None
                /\ Len(items) > 1 => out.filter.kind = "and"
                /\ Len(leaves) = Len(items)
                /\ \A i \in DOMAIN items :
                       /\ leaves[i].kind = "value"
                       /\ leaves[i].operator = OperatorOfKey(items[i].key)
                       /\ leaves[i].value = items[i].value

\* the leaves of a group are those of the entries of a mapping, in order
LeavesMatch(filter, kind, items) ==
    LET leaves == LeavesOf(filter)
    IN  /\ Len(items) > 1 => filter.kind = kind
        /\ Len(leaves) = Len(items)
        /\ \A i \in DOMAIN items :
               /\ leaves[i].kind = "value"
               /\ leaves[i].value = items[i].value
               /\ IsPrefix(leaves[i].target, items[i].key)

C13_NoFilterWithoutInput ==
    ( /\ Called("compile_filter")
      /\ search_call.input.query_params.having_all \in NoMappings
      /\ search_call.input.query_params.having_any \in NoMappings )
    => /\ search_call.output.raised = None
       /\ search_call.output.filter = NoFilter

\* C14: a key of one entry with an attribute name, spaces and a token
\* compiles to a leaf on that attribute name (which may hold spaces, and
\* does not end in the spaces that precede the token) with the token's
\* operator; a key without space is the attribute name, with operator
\* equal.
C14_SplitAtLastSpace ==
    ( /\ Called("compile_filter")
      /\ search_call.input.query_params.having_all.state = "map"
      /\ Len(search_call.input.query_params.having_all.items) = 1
      /\ search_call.input.query_params.having_any.state = "none"
      /\ search_call.output.raised = None )
    => LET key == search_call.input.query_params.having_all.items[1].key
           leaf == search_call.output.filter
       IN  /\ leaf.kind = "value"
           /\ NoSpaceIn(key) =>
                  leaf.target = key /\ leaf.operator = "equal"
           /\ ~NoSpaceIn(key) =>
                  /\ leaf.target = NameOf(key)
                  /\ leaf.operator = OperatorOf(TokenOf(key))

\* the parent strategy of a call: the override if given, else the base's
StrategyOfCall ==
    IF search_call.input.kwargs.parent_strategy.given
    THEN search_call.input.kwargs.parent_strategy.value
    ELSE base_query_params.parent_strategy

ParentsOf(object) == object.references.parent

RECURSIVE KeepFirst(_, _)
\* the first n objects of a list, without those whose uuid came before
KeepFirst(objects, n) ==
    IF n = 0 THEN <<>>
    ELSE IF \E j \in 1..(n - 1) : objects[j].uuid = objects[n].uuid
         THEN KeepFirst(objects, n - 1)
         ELSE Append(KeepFirst(objects, n - 1), objects[n])

RECURSIVE AllParents(_, _)
\* the parents of the first n results, result by result, in listed order
AllParents(results, n) ==
    IF n = 0 THEN <<>>
    ELSE AllParents(results, n - 1) \o ParentsOf(results[n])

\* the parents of result n that no earlier result refers to
NewParents(results, n) ==
    LET earlier == { AllParents(results, n - 1)[j].uuid :
                       j \in DOMAIN AllParents(results, n - 1) }
        Unseen(parent) == parent.uuid \notin earlier
        own == ParentsOf(results[n])
    IN  SelectSeq(KeepFirst(own, Len(own)), Unseen)

RECURSIVE Interleaved(_, _)
Interleaved(results, n) ==
    IF n = 0 THEN <<>>
    ELSE Interleaved(results, n - 1) \o <<results[n]>>
             \o NewParents(results, n)

\* C15: with parent strategy "replace", apply_parent_strategy returns the
\* parents that the results refer to, result by result and in listed
\* order, each uuid once at its first occurrence, and none of the results.
C15_ReplaceReturnsParents ==
    (Called("apply_parent_strategy") /\ StrategyOfCall = "replace")
    => LET results == search_call.input.query_results
           parents == AllParents(results, Len(results))
       IN  /\ search_call.output.raised = None
           /\ search_call.output.objects = KeepFirst(parents, Len(parents))

\* C16: with a parent strategy other than None and "replace",
\* apply_parent_strategy returns every result, in the original order, each
\* followed by those of its parents that no earlier result referred to, so
\* that each parent is inserted once, at its first point of reference.
C16_IncludeInterleavesParents ==
    (Called("apply_parent_strategy") /\ StrategyOfCall \notin {None, "replace"})
    => LET results == search_call.input.query_results
       IN  /\ search_call.output.raised = None
           /\ search_call.output.objects = Interleaved(results, Len(results))

\* the positions of the results with a filename, in encounter order
RECURSIVE PositionsOf(_, _, _)
PositionsOf(results, filename, n) ==
    IF n = 0 THEN <<>>
    ELSE IF results[n].properties.filename = filename
         THEN Append(PositionsOf(results, filename, n - 1), n)
         ELSE PositionsOf(results, filename, n - 1)

ChunkFor(documents, uuid) ==
    CHOOSE c \in UNION { { documents[d].chunks[k] :
                             k \in DOMAIN documents[d].chunks } :
                         d \in DOMAIN documents } : c.chunk_id = uuid

\* C18: the chunk of every result has as parent_id the uuid of the first
\* listed "parent" reference of the result, or None if it has none, and as
\* embedding the result's vector of the name named_vector, or None if the
\* result has no vector.
C18_ParentIdAndEmbedding ==
    Called("compile_chunked_documents")
    => \A i \in DOMAIN search_call.input.query_results :
           LET o == search_call.input.query_results[i]
               chunk == ChunkFor(search_call.output, o.uuid)
               named_vector == search_call.input.named_vector
           IN  /\ chunk.parent_id =
                      IF ParentsOf(o) = <<>> THEN NoId
                      ELSE Head(ParentsOf(o)).uuid
               /\ chunk.embedding =
                      IF o.vector.state = "none" THEN <<>>
                      ELSE << o.vector.named[named_vector] >>

C18_Witness ==
    /\ Called("compile_chunked_documents")
    /\ search_call.input.named_vector = "low_space"
    /\ \E i \in DOMAIN search_call.input.query_results :
           LET o == search_call.input.query_results[i]
               chunk == ChunkFor(search_call.output, o.uuid)
           IN  /\ Len(ParentsOf(o)) = 2
               /\ chunk.parent_id = ParentsOf(o)[1].uuid
               /\ chunk.parent_id # ParentsOf(o)[2].uuid
               /\ chunk.embedding = << o.uuid + 10 >>
    /\ \E i \in DOMAIN search_call.input.query_results :
           LET o == search_call.input.query_results[i]
               chunk == ChunkFor(search_call.output, o.uuid)
           IN  /\ ParentsOf(o) = <<>>
               /\ chunk.parent_id = NoId
               /\ chunk.embedding = <<>>

\* the value of a parameter in a call: the override if given, else the base's
ParamOfCall(k) ==
    IF search_call.input.kwargs[k].given
    THEN search_call.input.kwargs[k].value
    ELSE base_query_params[k]

\* C19: create_query_params fails with MissingCollectionName whenever the
\* collection name of the call (the override if given, else the base's) is
\* None or empty, and it has then asked nothing of the client: no
\* collection or tenant was resolved and no aggregate was run.
C19_MissingCollectionName ==
    ( /\ Called("create_query_params")
      /\ ~Supplied(ParamOfCall("collection_name")) )
    => /\ search_call.output.raised = "MissingCollectionName"
       /\ search_call.output.calls = <<>>

C19_Witness ==
    /\ Called("create_query_params")
    /\ base_query_params.collection_name = ""
    /\ ~search_call.input.kwargs.collection_name.given
    /\ search_call.input.kwargs.operation_level = Given(<<-1>>)
    /\ store[<<"A", None>>] # <<>>
    /\ search_call.output.raised = "MissingCollectionName"
    /\ search_call.output.calls = <<>>

LevelsIn(objects) ==
    { objects[i].properties.hierarchy_level : i \in DOMAIN objects }

Deepest(levels) == CHOOSE m \in levels : \A l \in levels : l <= m

\* the scope a call addresses: its collection, and its tenant if one is set
ScopeOfCall ==
    << ParamOfCall("collection_name"),
       IF Supplied(ParamOfCall("tenant_name"))
       THEN ParamOfCall("tenant_name") ELSE None >>

\* C20: a negative operation level is resolved to maximum + level + 1,
\* where maximum is the greatest hierarchy_level stored in the collection
\* of the call, or in its tenant when a tenant is set: -1 gives the deepest
\* level present and -2 the level above it.
C20_NegativeLevelResolved ==
    ( /\ Called("create_query_params")
      /\ ParamOfCall("operation_level") # <<>>
      /\ ParamOfCall("operation_level")[1] < 0
      /\ ScopeOfCall[1] \in collections
      /\ ScopeOfCall[2] = None \/ ScopeOfCall[2] \in tenants[ScopeOfCall[1]]
      /\ store[ScopeOfCall] # <<>> )
    => LET level == ParamOfCall("operation_level")[1]
           maximum == Deepest(LevelsIn(store[ScopeOfCall]))
           out == search_call.output
       IN  /\ out.raised = None
           /\ out.query_params.operation_level = << maximum + level + 1 >>
           /\ out.query_params.filter =
                  hierarchy_filter(maximum + level + 1)
           /\ level = -1 => out.query_params.operation_level = << maximum >>
           /\ level = -2 =>
                  out.query_params.operation_level = << maximum - 1 >>

C20_Witness ==
    /\ Called("create_query_params")
    /\ ScopeOfCall = <<"A", "t1">>
    /\ ParamOfCall("operation_level") = <<-1>>
    /\ LevelsIn(store[<<"A", "t1">>]) = 0..MaxLevel
    /\ LevelsIn(store[<<"A", None>>]) = {0}
    /\ search_call.output.raised = None
    /\ search_call.output.query_params.operation_level = << MaxLevel >>

(***************************************************************************)
(* Vocabulary of the properties of the creation of collections and tenants.*)
(***************************************************************************)
AdminCalled(op) == admin_call.op = op

\* the backend is as it was before the call
BackendAsBefore ==
    /\ collections = admin_call.before.collections
    /\ tenants = admin_call.before.tenants

\* the collection name a create_collection call is about
NameOfCall ==
    IF admin_call.input[1].collection_name.given
    THEN admin_call.input[1].collection_name.value
    ELSE base_persist_params.collection_name

\* C21: create_collection on a name that exists fails with
\* CollectionAlreadyExists and leaves the backend as it was, unless the flag
\* is set, in which case the handle of the existing collection is returned
\* and the backend is left as it was; on a name that does not exist it
\* creates exactly that collection and returns its handle.
C21_CreateCollection ==
    ( AdminCalled("create_collection") /\ NameOfCall # None )
    => LET omnipotent == admin_call.input[2]
           out == admin_call.output
       IN  IF NameOfCall \in admin_call.before.collections
           THEN /\ BackendAsBefore
                /\ IF omnipotent
                   THEN out.raised = None /\ out.returned = << NameOfCall >>
                   ELSE /\ out.raised = "CollectionAlreadyExists"
                        /\ out.returned = <<>>
           ELSE /\ out.raised = None
                /\ out.returned = << NameOfCall >>
                /\ collections =
                       admin_call.before.collections \cup { NameOfCall }
                /\ tenants = admin_call.before.tenants

C21_Witness ==
    /\ AdminCalled("create_collection")
    /\ admin_call.input[1].collection_name.given
    /\ NameOfCall = "B"
    /\ admin_call.input[2]
    /\ "B" \in admin_call.before.collections
    /\ tenants["B"] # {}
    /\ admin_call.output.returned = << "B" >>
    /\ BackendAsBefore

\* C22: create_tenant for a tenant that exists in the collection fails with
\* TenantAlreadyExists and leaves the backend as it was, unless the flag is
\* set, in which case the tenant-scoped handle is returned and the backend
\* is left as it was; for a tenant that does not exist in an existing
\* collection it creates the tenant and returns its tenant-scoped handle,
\* so that the tenant exists afterwards.
C22_CreateTenant ==
    ( /\ AdminCalled("create_tenant")
      /\ admin_call.input[1] \in admin_call.before.collections )
    => LET collection_name == admin_call.input[1]
           tenant_name == admin_call.input[2]
           idempotent == admin_call.input[3]
           out == admin_call.output
       IN  IF tenant_name \in admin_call.before.tenants[collection_name]
           THEN /\ BackendAsBefore
                /\ IF idempotent
                   THEN /\ out.raised = None
                        /\ out.returned = << collection_name, tenant_name >>
                   ELSE /\ out.raised = "TenantAlreadyExists"
                        /\ out.returned = <<>>
           ELSE /\ out.raised = None
                /\ out.returned = << collection_name, tenant_name >>
                /\ tenant_name \in tenants[collection_name]

(***************************************************************************)
(* Vocabulary of the properties of a search.                               *)
(***************************************************************************)
\* the parameters of the call: the base's, overridden by the call's
ParamsOfCall == [k \in DOMAIN base_query_params |-> ParamOfCall(k)]

\* the call is one whose query parameters can be compiled: its collection
\* exists, it names no tenant, and a negative level has objects to refer to
Compiled ==
    /\ Called("search")
    /\ ParamOfCall("collection_name") \in collections
    /\ ~Supplied(ParamOfCall("tenant_name"))
    /\ \/ ParamOfCall("operation_level") = <<>>
       \/ ParamOfCall("operation_level")[1] >= 0
       \/ store[ScopeOfCall] # <<>>

Asked(calls, name) == \E i \in DOMAIN calls : calls[i][1] = name

LevelFilter(level) ==
    [kind |-> "value", operator |-> "equal",
     target |-> <<"hierarchy_level">>, value |-> level, filters |-> <<>>]

\* C23: a configured level that is not negative is used as it is, without
\* an aggregate query, in an equality filter on hierarchy_level; that filter
\* is the second operand of an AND whose first operand is the filter
\* compiled from having_all / having_any when there is one, and the whole
\* filter otherwise; without a configured level the compiled filter is the
\* filter of the descriptor.
C23_LevelFilterCombined ==
    Compiled
    => LET level == ParamOfCall("operation_level")
           having == compile_filter("search", ParamsOfCall).filter
           out == search_call.output
       IN  /\ level = <<>> => out.query_params.filter = having
           /\ (level # <<>> /\ level[1] >= 0) =>
                  /\ ~Asked(out.calls, "aggregate.over_all")
                  /\ out.query_params.filter =
                         IF having # NoFilter
                         THEN [kind |-> "and", operator |-> "",
                               target |-> <<>>, value |-> 0,
                               filters |-> << having, LevelFilter(level[1]) >>]
                         ELSE LevelFilter(level[1])

C23_Witness ==
    /\ Compiled
    /\ base_query_params.operation_level = <<0>>
    /\ search_call.input.kwargs.operation_level = Given(<<1>>)
    /\ base_query_params.having_any = OneFilter
    /\ search_call.input.kwargs.having_all = Given(OneFilter)
    /\ search_call.output.query_params.filter.kind = "and"
    /\ search_call.output.query_params.filter.filters[1].kind = "and"
    /\ search_call.output.query_params.filter.filters[2] = LevelFilter(1)
    /\ search_call.output.raised = None

\* C24: the descriptor asks for the references of the relation "parent",
\* the one under which persist_document stores the parent of a chunk,
\* exactly when the parent strategy of the call is not None; otherwise it
\* asks for no references.
C24_ParentReferencesRequested ==
    Compiled
    => search_call.output.query_params.return_references =
           IF ParamOfCall("parent_strategy") # None
           THEN << parent_relation >>
           ELSE <<>>

\* the parent strategy the call asks for: the override's, else the base's
StrategyKwargsOfCall ==
    [parent_strategy |-> search_call.input.kwargs.parent_strategy]

\* C25: the overrides of a search call win over the base parameters for
\* that call, the parent strategy applied to the results included, and the
\* base parameters stay what the searcher was constructed with: a call
\* without overrides compiles the descriptor a new searcher of the same
\* configuration would compile.
C25_OverridesPerCallOnly ==
    /\ base_query_params = query_config
    /\ Compiled =>
           LET out == search_call.output
               kwargs == search_call.input.kwargs
               answer == search_call.input.answer
               fresh == create_query_params(query_config, NoKwargs,
                                            collections, tenants, store)
               applied == apply_parent_strategy(query_config,
                                                StrategyKwargsOfCall,
                                                answer.objects)
           IN  /\ kwargs = NoKwargs => out.query_params = fresh.query_params
               /\ kwargs.operation_level.given
                      => out.query_params.operation_level =
                             kwargs.operation_level.value
               /\ out.raised = None
                      => out.documents =
                             compile_chunked_documents(
                                 applied.objects,
                                 out.query_params.target_vector)
               /\ (~answer.failed /\ applied.raised = None)
                      => out.raised = None

C25_Witness ==
    /\ Compiled
    /\ base_query_params.parent_strategy = "replace"
    /\ base_query_params.operation_level = <<0>>
    /\ search_call.input.kwargs.parent_strategy = Given("include")
    /\ search_call.input.kwargs.operation_level = Given(<<>>)
    /\ Len(search_call.input.answer.objects) = 2
    /\ \A i \in 1..2 :
           search_call.input.answer.objects[i].references.state = "dict"
    /\ search_call.output.raised = None
    /\ search_call.output.query_params.operation_level = <<>>
    /\ Len(search_call.output.documents) = 1
    /\ Len(search_call.output.documents[1].chunks) = 3

SearchFunctions == {"near_text", "near_vector", "hybrid"}

\* the backend search calls among the calls of a search, in their order
SearchCallsIn(calls) ==
    SelectSeq(calls, LAMBDA call : call[1] \in SearchFunctions)

FunctionOf(class) ==
    CASE class = "SimilaritySearcher" -> "near_text"
      [] class = "VectorSimilaritySearcher" -> "near_vector"
      [] class = "HybridSearcher" -> "hybrid"

\* C26: a search whose parameters compile issues exactly one backend search
\* call, of the function of the searcher's class: near_text for a
\* SimilaritySearcher, near_vector for a VectorSimilaritySearcher, hybrid
\* for a HybridSearcher; when the backend fails that call, the failure is
\* what the search raises, there is no second search call and no document
\* is returned.  No search issues more than one search call.
C26_OneBackendSearchCall ==
    Called("search")
    => LET out == search_call.output
           issued == SearchCallsIn(out.calls)
       IN  /\ Len(issued) <= 1
           /\ Compiled =>
                  /\ issued = << << FunctionOf(searcher_class) >> >>
                  /\ out.calls[Len(out.calls)] = issued[1]
                  /\ search_call.input.answer.failed =>
                         /\ out.raised = "SearchBackendError"
                         /\ out.documents = <<>>

C26_Witness ==
    /\ Compiled
    /\ searcher_class = "HybridSearcher"
    /\ search_call.input.answer.failed
    /\ ParamOfCall("parent_strategy") = "replace"
    /\ SearchCallsIn(search_call.output.calls) = << << "hybrid" >> >>
    /\ search_call.output.raised = "SearchBackendError"
    /\ search_call.output.documents = <<>>

\* the calls made on the backend: every call but those of the `with` block
BackendCall(call) == call[1] \notin {"__enter__", "__exit__"}

\* call i is made inside a `with` block of the client factory
InsideWith(calls, i) ==
    \E j \in 1..(i - 1) :
        /\ calls[j] = <<"__enter__">>
        /\ \A k \in (j + 1)..i : calls[k] # <<"__exit__">>

\* C27: the connection of the client factory is held for the whole of a
\* query: every backend call create_query_params makes (the resolution of
\* the collection and of the tenant, the aggregate) is made inside the
\* `with` block that acquired the connection.
C27_BackendCallsWhileHeld ==
    Called("create_query_params")
    => \A i \in DOMAIN search_call.output.calls :
           BackendCall(search_call.output.calls[i])
               => InsideWith(search_call.output.calls, i)

\* a connection that was opened and not closed
Open(conns, c) == conns[c] \in {"live", "not_live"}

\* caller p enters a `with` block in this step
Acquires(p) == using[p] = NoClient /\ using'[p] # NoClient

\* what an acquisition does to the factory and hands to the caller
Acquisition(p) ==
    /\ using'[p] = client'
    /\ is_live(connections', client')
    /\ IF client # NoClient /\ is_live(connections, client)
       THEN client' = client /\ connections' = connections
       ELSE /\ connections[client'] = "unopened"
            /\ client # NoClient => connections'[client] = "closed"
            /\ \A c \in Connections \ {client, client'} :
                   connections'[c] = connections[c]

\* the only open connection, if any, is the one the factory holds
HoldsTheOnlyOpenConnection ==
    /\ client = NoClient
           => \A c \in Connections : connections[c] = "unopened"
    /\ client # NoClient => Open(connections, client)
    /\ \A c \in Connections : Open(connections, c) => c = client

\* C28: the factory opens no connection before the first acquisition; an
\* acquisition hands out the held connection when it is live and otherwise
\* closes the held one, if any, and hands out a new live one, which the
\* factory then holds; nothing else changes the held connection.  So at
\* every moment at most one connection is open, the one the factory holds,
\* and every connection that was replaced is closed.
C28_OneConnectionHeld ==
    /\ []HoldsTheOnlyOpenConnection
    /\ [][ /\ \A p \in AllProcs : Acquires(p) => Acquisition(p)
           /\ (\A p \in AllProcs : ~Acquires(p)) => client' = client ]_vars

C28_Witness ==
    /\ client = 3
    /\ connections[1] = "closed"
    /\ connections[2] = "closed"
    /\ connections[3] = "live"
    /\ using[1] = 2
    /\ using[2] = 3

\* C29: when create_query_params compiles a negative operation level, the
\* level it puts into the hierarchy_level equality filter is a level a
\* chunk can have: it lies between 0 and the greatest hierarchy_level
\* stored in the scope of the call, and is never negative.
C29_ResolvedLevelValid ==
    ( /\ Called("create_query_params")
      /\ ParamOfCall("operation_level") # <<>>
      /\ ParamOfCall("operation_level")[1] < 0
      /\ search_call.output.raised = None )
    => LET resolved == search_call.output.query_params.operation_level[1]
       IN  resolved \in 0..Deepest(LevelsIn(store[ScopeOfCall]))

\* a result that carries no parent reference: a root chunk
IsRoot(object) == object.references.state = "none"

\* C30: apply_parent_strategy with a strategy other than None does not
\* fail when a result is a root chunk, whose references are absent; results
\* that are all roots come back unchanged under "include" (no parent is
\* inserted) and give the empty list under "replace" (no parent is
\* contributed).
C30_RootResultsTolerated ==
    ( /\ Called("apply_parent_strategy")
      /\ StrategyOfCall # None
      /\ \E i \in DOMAIN search_call.input.query_results :
             IsRoot(search_call.input.query_results[i]) )
    => LET results == search_call.input.query_results
           all_roots == \A i \in DOMAIN results : IsRoot(results[i])
       IN  /\ search_call.output.raised = None
           /\ all_roots =>
                  search_call.output.objects =
                      IF StrategyOfCall = "replace" THEN <<>> ELSE results

=============================================================================
